---- MODULE Spec2Model ----
(***************************************************************************)
(* Model of TwitterRetrieval (src/twitter_retrieval.py): the bearer-token  *)
(* exchange, the request gate and the 429 retry loop of search_tweets.     *)
(*                                                                         *)
(* Time is a discrete clock `now` counted in ticks; TicksPerSecond ticks   *)
(* make one second, so that an elapsed time shorter than                   *)
(* min_request_interval (1.0 s) and longer than zero exists.               *)
(* An Optional value is the empty tuple (None) or a one-element tuple.     *)
(***************************************************************************)
EXTENDS Integers, Sequences, FiniteSets, TLC

\* ---------------------------------------------------------------- bounds
TicksPerSecond == 2
MaxTime == 3
MaxCalls == 2
MaxRetries == 3
MaxWait == 1
MaxReset == 1
MaxTweets == 3
MaxViews == 1

\* ------------------------------------------------------------- constants
\* self.min_request_interval = 1.0 (seconds), in ticks
min_request_interval == 1 * TicksPerSecond

None == <<>>
Some(x) == <<x>>
\* Python truthiness of an Optional number: None and 0 are false
Truthy(opt) == opt # None /\ opt[1] # 0

NoToken == "None"
Tokens == {"tokA", "tokB"}
\* `not self.bearer_token`
TokenMissing(tok) == tok = NoToken

Queries == {"", "AI"}

\* values of the max_results argument: below, inside and above the range
\* the provider accepts
MaxResultsValues == {5, 50, 500}

\* the (query, max_results, max_retries) arguments of the search_tweets
\* calls: the empty query goes with the max_results in range and the other
\* query with the values out of range; calls asking for fewer than 10 tweets
\* are made with every retry budget, the others with at most one retry
SearchArgs ==
    {a \in Queries \X MaxResultsValues \X (0..MaxRetries) :
        /\ a[1] = "" <=> a[2] \in 10..100
        /\ a[2] >= 10 => a[3] <= 1}
StatusCodes == {200, 304, 401, 429, 500}
TokenStatusCodes == {200, 304, 401}

\* requests.Response.raise_for_status: raises HTTPError for 4xx and 5xx only
RaisesForStatus(status) == status >= 400 /\ status < 600

\* answers of the provider to the search GET; net = TRUE is a network-level
\* failure (the GET raises), reset is the x-rate-limit-reset header (epoch
\* seconds) and json tells whether the body parses as JSON
\* a dictionary is a function on the keys it has
EmptyDict == [key \in {} |-> 0]

\* the users the provider includes, and the author ids of tweets: "u2" is
\* the id of an author who is not among the included users
IncludedUser ==
    [id |-> "u1", name |-> "Ann", username |-> "ann", verified |-> TRUE]
AuthorParts == {EmptyDict, "author_id" :> "u1", "author_id" :> "u2"}

\* created_at values: an ISO timestamp and a text that is not one
CreatedValues == {"2024-01-01T00:58:30Z", "yesterday"}
AllMetrics ==
    [impression_count |-> MaxViews + 1, like_count |-> 3,
     retweet_count |-> 2, reply_count |-> 1]

\* the impression_count values of a body: JSON numbers, a negative one
\* included
ViewsValues == (-1)..MaxViews

\* the optional details of a raw tweet: no public_metrics, an empty one, one
\* with impression_count only, or all metrics together with created_at
DetailParts ==
    {EmptyDict, "public_metrics" :> EmptyDict}
    \cup {"public_metrics" :> ("impression_count" :> v) : v \in ViewsValues}
    \cup {("public_metrics" :> AllMetrics) @@ ("created_at" :> c) :
            c \in CreatedValues}

\* raw tweets: the k-th tweet of a payload has id and text of k
RawTweet(k, author, detail) ==
    ("id" :> ToString(k)) @@ ("text" :> ToString(k)) @@ author @@ detail
\* the shapes of raw tweets: every detail for the included author, no
\* detail for a tweet of another author or without one
TweetShapes ==
    {shape \in AuthorParts \X DetailParts :
        shape[1] = ("author_id" :> "u1") \/ shape[2] = EmptyDict}
RawTweetLists ==
    UNION {{[k \in 1..n |-> RawTweet(k, shape[k][1], shape[k][2])] :
             shape \in [1..n -> TweetShapes]} :
           n \in 0..MaxTweets}

\* the `includes` part of a payload: absent, without users, with the user
IncludesParts ==
    {EmptyDict, "includes" :> EmptyDict,
     "includes" :> ("users" :> <<IncludedUser>>)}

\* JSON bodies of successful answers: without data, or with the tweets
Payloads ==
    IncludesParts
    \cup {("data" :> tweets) @@ inc :
            tweets \in RawTweetLists, inc \in IncludesParts}

\* the bodies answered to the GETs of search_tweets: no data, an empty data
\* array, and three tweets of which two have equal views
SampleTweets ==
    <<RawTweet(1, "author_id" :> "u2",
               "public_metrics" :> ("impression_count" :> 0)),
      RawTweet(2, "author_id" :> "u1",
               ("public_metrics" :> AllMetrics)
                   @@ ("created_at" :> "2024-01-01T00:58:30Z")),
      RawTweet(3, EmptyDict, EmptyDict)>>
SamplePayloads ==
    {EmptyDict, "data" :> <<>>,
     ("data" :> SampleTweets) @@ ("includes" :> ("users" :> <<IncludedUser>>))}

\* answers to the GET of search_tweets: a network failure, 429 with or
\* without the reset header, or another status with a body that is JSON
\* (data) or is not; only the 200 answers carry tweets
GetResponses ==
    [net : {TRUE}, status : {0}, reset : {None}, json : {FALSE},
     data : {EmptyDict}]
    \cup [net : {FALSE}, status : {429},
          reset : {None} \cup {Some(s) : s \in 0..MaxReset}, json : {FALSE},
          data : {EmptyDict}]
    \cup [net : {FALSE}, status : StatusCodes \ {429},
          reset : {None}, json : BOOLEAN, data : {EmptyDict}]
    \cup [net : {FALSE}, status : {200},
          reset : {None}, json : {TRUE}, data : SamplePayloads]

\* the rate limit headers of a response and the values the provider sends
\* with them (header values are strings); "soon" is a reset value that is
\* not a number
RateLimitHeaders ==
    {"x-rate-limit-limit", "x-rate-limit-remaining", "x-rate-limit-reset"}
ResetValues == {ToString(s) : s \in 0..MaxReset} \cup {"soon"}
HeaderSets ==
    UNION {{[h \in present |->
               CASE h = "x-rate-limit-limit"     -> "450"
                 [] h = "x-rate-limit-remaining" -> "449"
                 [] OTHER                        -> reset] :
             reset \in ResetValues} : present \in SUBSET RateLimitHeaders}

\* answers to the GET of get_rate_limit_status: the status code is not
\* looked at, only the headers are
StatusResponses ==
    [net : {TRUE}, status : {0}, headers : {<<>>}]
    \cup [net : {FALSE}, status : {200, 429}, headers : HeaderSets]

\* the tokens an answer can carry when tok is stored: token values are
\* opaque, so the first one an instance stores is named "tokA" and only an
\* exchange made while a token is stored can bring a different one
Issuable(tok) ==
    IF tok = NoToken THEN {"tokA", NoToken} ELSE Tokens \cup {NoToken}

\* answers of the token endpoint to the POST; token = NoToken is a JSON body
\* without access_token
TokenResponses ==
    [net : {TRUE}, status : {0}, json : {FALSE}, token : {NoToken}]
    \cup [net : {FALSE}, status : TokenStatusCodes, json : {FALSE},
          token : {NoToken}]
    \cup [net : {FALSE}, status : TokenStatusCodes, json : {TRUE},
          token : Tokens \cup {NoToken}]

VARIABLES
    now,                \* the clock (ticks)
    creds,              \* X_API_KEY and X_API_SECRET are both set
    pc,                 \* position of the single caller
    op,                 \* the public method being executed
    bearer_token,       \* self.bearer_token
    rate_limit_wait,    \* self.rate_limit_wait (seconds)
    last_request_time,  \* self.last_request_time (Optional ticks)
    query,              \* argument of search_tweets
    max_results,        \* argument of search_tweets
    max_retries,        \* argument of search_tweets
    retry_count,        \* local of search_tweets
    wait_seconds,       \* local of search_tweets (ticks)
    headers,            \* token of the Authorization header of the GET
    params,             \* query parameters of the GET (Optional)
    data,               \* local of search_tweets: response.json() (Optional)
    processed_tweets,   \* local of search_tweets
    outcome,            \* what the last finished call returned or raised
    calls,              \* number of calls made on the instance
    \* ---- history variables (observations, not program state)
    attempts,           \* statuses answered to the GETs of the current call
    sent,               \* max_results parameter of each GET of the call
    callPosts,          \* token POSTs sent in the current call
    tokenAnswer,        \* status answered to the last POST of the call
    postWithToken,      \* a POST of the call was sent with a token stored
    lastWait,           \* the backoff being slept (Optional record)
    gateWait,           \* ticks the gate slept in the current call
    sleeps,             \* backoff sleeps finished in the current call
    getTime,            \* when the last GET of the call was sent (Optional)
    statusGets,         \* GETs sent by the get_rate_limit_status call
    received,           \* headers of the answer to that GET (Optional)
    last_response_time, \* when the last search GET was answered (Optional)
    last_status_time,   \* when a status GET was sent since the last search
    gap                 \* of the GET just sent: ticks since the last answer

vars == <<now, creds, pc, op, bearer_token, rate_limit_wait, last_request_time,
          query, max_results, max_retries, retry_count, wait_seconds,
          headers, params, data, processed_tweets, outcome, calls, attempts,
          sent, callPosts,
          tokenAnswer, postWithToken, lastWait,
          gateWait, sleeps, getTime, statusGets, received, last_response_time,
          last_status_time,
          gap>>

prog == <<creds, bearer_token, rate_limit_wait, last_request_time>>
args == <<query, max_results, max_retries>>
locals == <<retry_count, wait_seconds, headers, params, data,
            processed_tweets>>
hist == <<attempts, sent, callPosts, tokenAnswer, postWithToken, lastWait,
          gateWait, sleeps, getTime, statusGets, received, last_response_time,
          last_status_time,
          gap>>

Max(a, b) == IF a >= b THEN a ELSE b
Secs(s) == s * TicksPerSecond

\* str(e) of a raised error, as a sequence of words: the HTTPError raised
\* after the loop ("Failed after {max_retries} retries due to rate
\* limiting"), the HTTPError of raise_for_status ("{status} Client Error:
\* ..." or "{status} Server Error: ..."), other errors carry no status
ErrorMessage(status, why) ==
    IF why = "rate_limit"
      THEN <<"Failed", "after", ToString(max_retries), "retries", "due", "to",
             "rate", "limiting">>
    ELSE IF why \in {"status", "token"} /\ status # 0
      THEN <<ToString(status),
             IF status < 500 THEN "Client" ELSE "Server", "Error:">>
    ELSE <<"error">>

NoOutcome == [kind |-> "none", status |-> 0, response |-> FALSE,
              why |-> "", token |-> NoToken, msg |-> <<>>, value |-> <<>>]
Raised(kind, status, response, why) ==
    [kind |-> kind, status |-> status, response |-> response,
     why |-> why, token |-> NoToken,
     msg |-> IF kind = "HTTPError" THEN ErrorMessage(status, why)
             ELSE <<"error">>,
     value |-> <<>>]
Returned(kind, token) ==
    [kind |-> kind, status |-> 0, response |-> FALSE, why |-> "",
     token |-> token, msg |-> <<>>, value |-> <<>>]

Init ==
    /\ now = 1
    /\ creds \in BOOLEAN
    /\ rate_limit_wait \in 0..MaxWait
    /\ pc = "new"
    /\ op = "none"
    /\ bearer_token = NoToken
    /\ last_request_time = None
    /\ query = ""
    /\ max_results = 0
    /\ max_retries = 0
    /\ retry_count = 0
    /\ wait_seconds = 0
    /\ headers = NoToken
    /\ params = None
    /\ data = None
    /\ processed_tweets = <<>>
    /\ outcome = NoOutcome
    /\ calls = 0
    /\ attempts = <<>>
    /\ sent = <<>>
    /\ callPosts = 0
    /\ tokenAnswer = None
    /\ postWithToken = FALSE
    /\ lastWait = None
    /\ gateWait = 0
    /\ sleeps = 0
    /\ getTime = None
    /\ statusGets = 0
    /\ received = None
    /\ last_response_time = None
    /\ last_status_time = None
    /\ gap = None

\* TwitterRetrieval.__init__
Construct ==
    /\ pc = "new"
    /\ bearer_token' = NoToken
    /\ last_request_time' = None
    /\ IF creds
         THEN pc' = "idle" /\ outcome' = NoOutcome
         ELSE /\ pc' = "dead"
              /\ outcome' = Raised("ValueError", 0, FALSE, "credentials")
    /\ UNCHANGED <<now, creds, op, rate_limit_wait, args, locals, calls, hist>>

\* time passes.  The clock is read at the gate and when a GET is answered:
\* time passing before a call starts and before a GET is answered gives
\* every reading the clock can have there
Tick ==
    /\ pc \in {"idle", "get"}
    /\ now < MaxTime
    /\ now' = now + 1
    /\ UNCHANGED <<prog, pc, op, args, locals, outcome, calls, hist>>


\* a call ends: it returns or raises o
Finish(o) == pc' = "done" /\ outcome' = o

\* mutant: the token is fetched on every call, stored or not
NeedsTokenAlways(method, tok) == TRUE

\* mutant: search_tweets exchanges the credentials on every call
NeedsTokenOnSearch(method, tok) ==
    IF method \in {"token", "search"} THEN TRUE ELSE TokenMissing(tok)

\* `if not self.bearer_token: self.get_bearer_token()` of search_tweets and of
\* get_rate_limit_status; a direct get_bearer_token() call has no such test
NeedsToken(method, tok) ==
    IF method = "token" THEN TRUE ELSE TokenMissing(tok)

\* mutant: the loop test is strict
LoopContinuesStrict(rc, mr) == rc < mr

\* `while retry_count <= max_retries`
LoopContinues(rc, mr) == rc <= mr

\* mutant: server errors are retried as well
IsRateLimitedOrServerError(status) == status = 429 \/ status >= 500

\* `if response.status_code == 429`
IsRateLimited(status) == status = 429

\* mutant: one more 429 answer is retried before giving up
RetriesExhaustedLate(rc, mr) == rc > mr + 1

\* `if retry_count > max_retries: raise HTTPError(...)`
RetriesExhausted(rc, mr) == rc > mr

\* mutant: the gate sleeps the elapsed time instead of the remainder
GateSleepElapsed(lrt, t) ==
    IF Truthy(lrt)
      THEN LET elapsed == t - lrt[1]
           IN  IF elapsed < min_request_interval THEN elapsed ELSE 0
      ELSE 0

\* the gate of search_tweets: ticks to sleep before the first GET of a call
GateSleep(lrt, t) ==
    IF Truthy(lrt)
      THEN LET elapsed == t - lrt[1]
           IN  IF elapsed < min_request_interval
                 THEN min_request_interval - elapsed
                 ELSE 0
      ELSE 0

\* mutant: the fallback wait doubles with every retry
BackoffWaitExponential(reset, rc, rlw, t) ==
    IF reset # None
      THEN Max(Secs(reset[1]) - t, Secs(rlw))
      ELSE Secs(rlw) * 2 ^ (rc - 1)

\* mutant: the time to the reset is not floored by rate_limit_wait
BackoffWaitNoFloor(reset, rc, rlw, t) ==
    IF reset # None
      THEN Secs(reset[1]) - t
      ELSE Secs(rlw) * rc

\* the wait before a retry (ticks): reset is the x-rate-limit-reset header,
\* rc the retry counter after its increment, rlw self.rate_limit_wait, t now
BackoffWait(reset, rc, rlw, t) ==
    IF reset # None
      THEN Max(Secs(reset[1]) - t, Secs(rlw))
      ELSE Secs(rlw) * rc

\* response.headers.get(name, default)
HeaderGet(hdrs, name, default) ==
    IF name \in DOMAIN hdrs THEN hdrs[name] ELSE default

\* int(text): the number a decimal string denotes, None when int() raises
ParseInt(text) ==
    IF \E n \in 0..(MaxReset + 1) : ToString(n) = text
      THEN Some(CHOOSE n \in 0..(MaxReset + 1) : ToString(n) = text)
      ELSE None

\* get_rate_limit_status: int(reset) is evaluated only when the reset header
\* is there and not empty; a value that is not a number raises ValueError,
\* which `except Exception` turns into the result {}
ResetTimeParses(hdrs) ==
    LET reset == HeaderGet(hdrs, "x-rate-limit-reset", "")
    IN  reset # "" => ParseInt(reset) # None

\* mutant: a header that is absent is reported as the empty string
RateLimitStatusBlank(hdrs) ==
    [limit      |-> HeaderGet(hdrs, "x-rate-limit-limit", ""),
     remaining  |-> HeaderGet(hdrs, "x-rate-limit-remaining", ""),
     reset      |-> HeaderGet(hdrs, "x-rate-limit-reset", ""),
     reset_time |-> LET reset == HeaderGet(hdrs, "x-rate-limit-reset", "")
                    IN  IF reset # "" THEN ParseInt(reset) ELSE None]

\* the dictionary get_rate_limit_status returns; reset_time is the epoch
\* second of the reset (datetime.fromtimestamp of it) or None
RateLimitStatus(hdrs) ==
    [limit      |-> HeaderGet(hdrs, "x-rate-limit-limit", "Unknown"),
     remaining  |-> HeaderGet(hdrs, "x-rate-limit-remaining", "Unknown"),
     reset      |-> HeaderGet(hdrs, "x-rate-limit-reset", "Unknown"),
     reset_time |-> LET reset == HeaderGet(hdrs, "x-rate-limit-reset", "")
                    IN  IF reset # "" THEN ParseInt(reset) ELSE None]

Min(a, b) == IF a <= b THEN a ELSE b

\* mutant: max_results is raised to 10 but not capped
ClampMaxResultsFloorOnly(n) == Max(n, 10)

\* "max_results": min(max(max_results, 10), 100)
ClampMaxResults(n) == Min(Max(n, 10), 100)

\* dict.get(key, default)
DictGet(dict, key, default) ==
    IF key \in DOMAIN dict THEN dict[key] ELSE default

\* datetime.fromisoformat(text.replace('Z', '+00:00')): the instant in
\* seconds since 2024-01-01T00:00:00Z, None when it raises
FromIsoFormat(text) ==
    IF text = "2024-01-01T00:58:30Z" THEN Some(3510) ELSE None

\* datetime.now() when a timestamp is formatted, on the same scale
ClockReading == 3600

\* _format_timestamp: "Unknown" for a missing or empty value, the age in
\* the largest unit that applies (truncated), the text itself when it is
\* not an ISO timestamp
FormatTimestamp(timestamp_str) ==
    IF timestamp_str = "" THEN "Unknown"
    ELSE IF FromIsoFormat(timestamp_str) = None THEN timestamp_str
    ELSE LET seconds == ClockReading - FromIsoFormat(timestamp_str)[1]
         IN  IF seconds < 60 THEN ToString(seconds) \o "s ago"
             ELSE IF seconds < 3600 THEN ToString(seconds \div 60) \o "m ago"
             ELSE IF seconds < 86400
               THEN ToString(seconds \div 3600) \o "h ago"
             ELSE ToString(seconds \div 86400) \o "d ago"

\* _process_response: users_dict[user['id']] = user for the included users
UsersDict(payload) ==
    IF "includes" \in DOMAIN payload /\ "users" \in DOMAIN payload["includes"]
      THEN LET users == payload["includes"]["users"]
           IN  [id \in {users[i]["id"] : i \in 1..Len(users)} |->
                  users[CHOOSE i \in 1..Len(users) :
                          /\ users[i]["id"] = id
                          /\ \A j \in (i + 1)..Len(users) :
                                users[j]["id"] # id]]
      ELSE EmptyDict

\* _process_response: the record built for one raw tweet; a tweet without
\* author_id looks up None, which is no user's id
FormatTweet(tweet, users_dict) ==
    LET author_data ==
            IF "author_id" \in DOMAIN tweet
              THEN DictGet(users_dict, tweet["author_id"], EmptyDict)
              ELSE EmptyDict
        metrics == DictGet(tweet, "public_metrics", EmptyDict)
    IN  [id        |-> tweet["id"],
         text      |-> tweet["text"],
         author    |-> DictGet(author_data, "name", "Unknown"),
         username  |-> "@" \o DictGet(author_data, "username", "unknown"),
         verified  |-> DictGet(author_data, "verified", FALSE),
         timestamp |-> FormatTimestamp(DictGet(tweet, "created_at", "")),
         views     |-> DictGet(metrics, "impression_count", 0),
         likes     |-> DictGet(metrics, "like_count", 0),
         retweets  |-> DictGet(metrics, "retweet_count", 0),
         replies   |-> DictGet(metrics, "reply_count", 0),
         url       |-> "https://twitter.com/"
                         \o DictGet(author_data, "username", "i")
                         \o "/status/" \o tweet["id"]]

\* mutant: a tweet whose author is not included is dropped
ProcessResponseKnownAuthors(payload) ==
    IF "data" \in DOMAIN payload
      THEN SelectSeq([i \in 1..Len(payload["data"]) |->
                        FormatTweet(payload["data"][i], UsersDict(payload))],
                     LAMBDA tweet : tweet.author # "Unknown")
      ELSE <<>>

\* _process_response: one record per tweet of data['data'], in its order
ProcessResponse(payload) ==
    IF "data" \in DOMAIN payload
      THEN [i \in 1..Len(payload["data"]) |->
              FormatTweet(payload["data"][i], UsersDict(payload))]
      ELSE <<>>

\* mutant: a tweet is placed before the tweets with the same views
InsertByViewsFirst(tweet, sorted) ==
    LET before == SelectSeq(sorted, LAMBDA t : t.views > tweet.views)
        after == SelectSeq(sorted, LAMBDA t : t.views <= tweet.views)
    IN  before \o <<tweet>> \o after

\* a tweet is placed after the tweets of a sorted list that have at least
\* its views
InsertByViews(tweet, sorted) ==
    LET before == SelectSeq(sorted, LAMBDA t : t.views >= tweet.views)
        after == SelectSeq(sorted, LAMBDA t : t.views < tweet.views)
    IN  before \o <<tweet>> \o after

\* processed_tweets.sort(key=lambda tweet: tweet['views'], reverse=True):
\* a stable sort, the tweets are placed one by one in their order
RECURSIVE SortByViews(_)
SortByViews(tweets) ==
    IF tweets = <<>> THEN <<>>
    ELSE InsertByViews(tweets[Len(tweets)],
                       SortByViews(SubSeq(tweets, 1, Len(tweets) - 1)))

\* `'data' not in data or not data['data']`
EmptyData(payload) ==
    IF "data" \notin DOMAIN payload THEN TRUE
    ELSE Len(payload["data"]) = 0

\* mutant: the empty result does not echo the query
EmptyResultNoQuery(q) == [tweets |-> <<>>, totalResults |-> 0, query |-> ""]

\* the dictionary returned when the body has no tweets
EmptyResult(q) == [tweets |-> <<>>, totalResults |-> 0, query |-> q]

\* mutant: totalResults counts the tweets that were viewed
FoundResultCountsViewed(q, tweets) ==
    [tweets |-> tweets,
     totalResults |-> Len(SelectSeq(tweets, LAMBDA t : t.views > 0)),
     query |-> q]

\* the dictionary returned with the processed and sorted tweets
FoundResult(q, tweets) ==
    [tweets |-> tweets, totalResults |-> Len(tweets), query |-> q]

\* the dictionary search_tweets returns for a parsed body
SearchResult(q, payload) ==
    IF EmptyData(payload)
      THEN EmptyResult(q)
      ELSE FoundResult(q, SortByViews(ProcessResponse(payload)))

\* the caller starts search_tweets(q, max_results, mr); max_results only
\* shapes the params of the GET and has no part in the control flow
CallSearch(q, mx, mr) ==
    /\ pc = "idle"
    /\ calls < MaxCalls
    /\ calls' = calls + 1
    /\ op' = "search"
    /\ query' = q
    /\ max_results' = mx
    /\ max_retries' = mr
    /\ pc' = IF NeedsToken("search", bearer_token) THEN "post" ELSE "gate"
    /\ UNCHANGED <<now, prog, locals, outcome, hist>>

\* the caller starts get_bearer_token()
CallGetBearerToken ==
    /\ pc = "idle"
    /\ calls < MaxCalls
    /\ calls' = calls + 1
    /\ op' = "token"
    /\ pc' = IF NeedsToken("token", bearer_token) THEN "post" ELSE "idle"
    /\ UNCHANGED <<now, prog, args, locals, outcome, hist>>

\* the caller starts get_rate_limit_status()
CallGetRateLimitStatus ==
    /\ pc = "idle"
    /\ calls < MaxCalls
    /\ calls' = calls + 1
    /\ op' = "status"
    /\ pc' = IF NeedsToken("status", bearer_token) THEN "post" ELSE "status_get"
    /\ UNCHANGED <<now, prog, args, locals, outcome, hist>>

\* where get_bearer_token returns to
AfterToken(method) ==
    IF method = "search" THEN "gate"
    ELSE IF method = "status" THEN "status_get"
    ELSE "idle"

\* get_bearer_token: the POST is sent and answered with status (0 when
\* requests.post raises)
PostSent(status) ==
    /\ pc = "post"
    /\ tokenAnswer' = Some(status)
    /\ callPosts' = callPosts + 1
    /\ postWithToken' = (postWithToken \/ ~TokenMissing(bearer_token))

\* get_bearer_token: requests.post raises (network-level failure)
TokenNetworkFailure ==
    /\ PostSent(0)
    /\ Finish(Raised("ConnectionError", 0, FALSE, "token"))
    /\ UNCHANGED <<now, prog, op, args, locals, calls, attempts, sent,
                   lastWait,
                   gateWait, sleeps, getTime, statusGets, received,
                   last_response_time, last_status_time,
                   gap>>

\* get_bearer_token: raise_for_status raises
TokenHttpError(resp) ==
    /\ ~resp.net
    /\ PostSent(resp.status)
    /\ RaisesForStatus(resp.status)
    /\ Finish(Raised("HTTPError", resp.status, TRUE, "token"))
    /\ UNCHANGED <<now, prog, op, args, locals, calls, attempts, sent,
                   lastWait,
                   gateWait, sleeps, getTime, statusGets, received,
                   last_response_time, last_status_time,
                   gap>>

\* get_bearer_token: response.json() raises
TokenBadJson(resp) ==
    /\ ~resp.net
    /\ PostSent(resp.status)
    /\ ~RaisesForStatus(resp.status)
    /\ ~resp.json
    /\ Finish(Raised("JSONDecodeError", resp.status, TRUE, "token"))
    /\ UNCHANGED <<now, prog, op, args, locals, calls, attempts, sent,
                   lastWait,
                   gateWait, sleeps, getTime, statusGets, received,
                   last_response_time, last_status_time,
                   gap>>

\* get_bearer_token: the token of the body (None without access_token) is
\* stored and returned
TokenStored(resp) ==
    /\ ~resp.net
    /\ resp.token \in Issuable(bearer_token)
    /\ PostSent(resp.status)
    /\ ~RaisesForStatus(resp.status)
    /\ resp.json
    /\ bearer_token' = resp.token
    /\ IF AfterToken(op) = "idle"
         THEN Finish(Returned("token", resp.token))
         ELSE pc' = AfterToken(op) /\ outcome' = outcome
    /\ UNCHANGED <<now, creds, rate_limit_wait, last_request_time, op, args,
                   locals, calls, attempts, sent, lastWait, gateWait, sleeps,
                   getTime, statusGets, received,
                   last_response_time, last_status_time, gap>>

\* search_tweets: the gate, then headers, params and retry_count = 0
Gate ==
    /\ pc = "gate"
    /\ LET w == GateSleep(last_request_time, now)
       IN  /\ now' = now + w
           /\ gateWait' = w
    /\ headers' = bearer_token
    /\ params' = Some([query |-> query,
                       max_results |-> ClampMaxResults(max_results)])
    /\ retry_count' = 0
    /\ IF LoopContinues(0, max_retries)
         THEN pc' = "get" /\ outcome' = outcome
         ELSE Finish(Raised("HTTPError", 0, FALSE, "rate_limit"))
    /\ UNCHANGED <<prog, op, args, wait_seconds, data, processed_tweets,
                   calls, attempts, sent, callPosts, tokenAnswer,
                   postWithToken, lastWait, sleeps, getTime, statusGets,
                   received, last_response_time, last_status_time, gap>>

\* search_tweets: a GET is sent
GetSent ==
    /\ pc = "get"
    /\ getTime' = Some(now)
    /\ sent' = Append(sent, params[1].max_results)
    /\ gap' = IF last_response_time = None THEN None
              ELSE Some(now - last_response_time[1])

\* search_tweets: a GET is answered; last_request_time = time.time()
GetAnswered(resp) ==
    /\ GetSent
    /\ ~resp.net
    /\ last_request_time' = Some(now)
    /\ last_response_time' = Some(now)
    /\ last_status_time' = last_status_time
    /\ attempts' = Append(attempts, resp.status)

\* search_tweets: requests.get raises (network-level failure)
GetNetworkFailure ==
    /\ GetSent
    /\ attempts' = Append(attempts, 0)
    /\ Finish(Raised("ConnectionError", 0, FALSE, "network"))
    /\ UNCHANGED <<now, prog, op, args, locals, calls, callPosts, tokenAnswer,
                   postWithToken, lastWait, gateWait, sleeps, statusGets,
                   received,
                   last_response_time, last_status_time>>

\* search_tweets: 429, and the wait before the retry is computed
GetRateLimited(resp) ==
    /\ GetAnswered(resp)
    /\ IsRateLimited(resp.status)
    /\ LET rc == retry_count + 1
       IN  /\ retry_count' = rc
           /\ ~RetriesExhausted(rc, max_retries)
           /\ wait_seconds' = BackoffWait(resp.reset, rc, rate_limit_wait, now)
           /\ lastWait' = Some([k |-> rc, reset |-> resp.reset, at |-> now,
                                secs |-> BackoffWait(resp.reset, rc,
                                                     rate_limit_wait, now)])
    /\ pc' = "sleep"
    /\ UNCHANGED <<now, creds, bearer_token, rate_limit_wait, op, args,
                   headers, params, data, processed_tweets, outcome, calls,
                   callPosts, tokenAnswer,
                   postWithToken, gateWait, sleeps, statusGets, received>>

\* search_tweets: 429 with the retries used up: the HTTPError raised at the
\* test is caught by `except HTTPError`, which continues the loop, whose test
\* fails, and the error after the loop is raised
GetRetriesExhausted(resp) ==
    /\ GetAnswered(resp)
    /\ IsRateLimited(resp.status)
    /\ LET rc == retry_count + 1
       IN  /\ retry_count' = rc
           /\ RetriesExhausted(rc, max_retries)
           /\ IF LoopContinues(rc, max_retries)
                THEN pc' = "get" /\ outcome' = outcome
                ELSE Finish(Raised("HTTPError", 0, FALSE, "rate_limit"))
    /\ UNCHANGED <<now, creds, bearer_token, rate_limit_wait, op, args,
                   wait_seconds, headers, params, data, processed_tweets,
                   calls, callPosts,
                   tokenAnswer,
                   postWithToken, lastWait, gateWait, sleeps, statusGets,
                   received>>

\* search_tweets: time.sleep(wait_seconds); continue.  The observations of
\* the attempt that was answered 429 end here
Sleep ==
    /\ pc = "sleep"
    /\ now' = now + wait_seconds
    /\ IF LoopContinues(retry_count, max_retries)
         THEN pc' = "get" /\ outcome' = outcome
         ELSE Finish(Raised("HTTPError", 0, FALSE, "rate_limit"))
    /\ sleeps' = sleeps + 1
    /\ lastWait' = None
    /\ gap' = None
    /\ UNCHANGED <<prog, op, args, locals, calls, attempts, sent, callPosts,
                   tokenAnswer, postWithToken, gateWait, getTime, statusGets,
                   received,
                   last_response_time, last_status_time>>

\* search_tweets: raise_for_status raises and the error is re-raised
GetHttpError(resp) ==
    /\ GetAnswered(resp)
    /\ ~IsRateLimited(resp.status)
    /\ RaisesForStatus(resp.status)
    /\ Finish(Raised("HTTPError", resp.status, TRUE, "status"))
    /\ UNCHANGED <<now, creds, bearer_token, rate_limit_wait, op, args,
                   locals, calls, callPosts, tokenAnswer, postWithToken,
                   lastWait, gateWait, sleeps, statusGets, received>>

\* search_tweets: response.json() raises
GetBadJson(resp) ==
    /\ GetAnswered(resp)
    /\ ~IsRateLimited(resp.status)
    /\ ~RaisesForStatus(resp.status)
    /\ ~resp.json
    /\ Finish(Raised("JSONDecodeError", resp.status, TRUE, "body"))
    /\ UNCHANGED <<now, creds, bearer_token, rate_limit_wait, op, args,
                   locals, calls, callPosts, tokenAnswer, postWithToken,
                   lastWait, gateWait, sleeps, statusGets, received>>

\* search_tweets: the result dictionary is returned
GetSuccess(resp) ==
    /\ GetAnswered(resp)
    /\ ~IsRateLimited(resp.status)
    /\ ~RaisesForStatus(resp.status)
    /\ resp.json
    /\ data' = Some(resp.data)
    /\ processed_tweets' = IF EmptyData(resp.data) THEN <<>>
                           ELSE SortByViews(ProcessResponse(resp.data))
    /\ Finish([Returned("result", NoToken)
                  EXCEPT !.status = resp.status,
                         !.value = SearchResult(query, resp.data)])
    /\ UNCHANGED <<now, creds, bearer_token, rate_limit_wait, op, args,
                   retry_count, wait_seconds, headers, params, calls,
                   callPosts, tokenAnswer, postWithToken, lastWait, gateWait,
                   sleeps, statusGets, received>>

\* get_rate_limit_status: the GET; any exception gives the empty dictionary
StatusGet(resp) ==
    /\ pc = "status_get"
    /\ statusGets' = statusGets + 1
    /\ received' = IF resp.net THEN None ELSE Some(resp.headers)
    /\ last_status_time' = Some(now)
    /\ IF resp.net \/ ~ResetTimeParses(resp.headers)
         THEN Finish(Returned("status_empty", NoToken))
         ELSE Finish([Returned("status", NoToken)
                         EXCEPT !.status = resp.status,
                                !.value = RateLimitStatus(resp.headers)])
    /\ UNCHANGED <<now, prog, op, args, locals, calls, attempts, sent,
                   callPosts,
                   tokenAnswer, postWithToken, lastWait, gateWait, sleeps,
                   getTime, last_response_time, gap>>

\* the call is over: its frame (arguments, locals, the value returned or
\* raised) is gone and the observations of the call are cleared
Return ==
    /\ pc = "done"
    /\ pc' = "idle"
    /\ op' = "none"
    /\ query' = ""
    /\ max_results' = 0
    /\ max_retries' = 0
    /\ retry_count' = 0
    /\ wait_seconds' = 0
    /\ headers' = NoToken
    /\ params' = None
    /\ data' = None
    /\ processed_tweets' = <<>>
    /\ outcome' = NoOutcome
    /\ attempts' = <<>>
    /\ sent' = <<>>
    /\ callPosts' = 0
    /\ tokenAnswer' = None
    /\ lastWait' = None
    /\ gateWait' = 0
    /\ sleeps' = 0
    /\ getTime' = None
    /\ statusGets' = 0
    /\ received' = None
    /\ gap' = None
    /\ postWithToken' = FALSE
    /\ last_status_time' = IF op = "search" THEN None ELSE last_status_time
    /\ UNCHANGED <<now, prog, calls, last_response_time>>

Next ==
    \/ Construct
    \/ Tick
    \/ \E a \in SearchArgs : CallSearch(a[1], a[2], a[3])
    \/ CallGetBearerToken
    \/ CallGetRateLimitStatus
    \/ TokenNetworkFailure
    \/ \E resp \in TokenResponses : TokenHttpError(resp)
    \/ \E resp \in TokenResponses : TokenBadJson(resp)
    \/ \E resp \in TokenResponses : TokenStored(resp)
    \/ Gate
    \/ GetNetworkFailure
    \/ \E resp \in GetResponses : GetRateLimited(resp)
    \/ \E resp \in GetResponses : GetRetriesExhausted(resp)
    \/ Sleep
    \/ \E resp \in GetResponses : GetHttpError(resp)
    \/ \E resp \in GetResponses : GetBadJson(resp)
    \/ \E resp \in GetResponses : GetSuccess(resp)
    \/ \E resp \in StatusResponses : StatusGet(resp)
    \/ Return

Spec == Init /\ [][Next]_vars

\* ---------------------------------------- building the result of a search
\* search_tweets right after `data = response.json()` of the first GET of a
\* call: the body is any of Payloads
ResultInit ==
    /\ now = 1
    /\ creds = TRUE
    /\ rate_limit_wait = MaxWait
    /\ pc = "parsed"
    /\ op = "search"
    /\ bearer_token = "tokA"
    /\ last_request_time = Some(now)
    /\ \E a \in SearchArgs :
          query = a[1] /\ max_results = a[2] /\ max_retries = a[3]
    /\ retry_count = 0
    /\ wait_seconds = 0
    /\ headers = bearer_token
    /\ params = Some([query |-> query,
                      max_results |-> ClampMaxResults(max_results)])
    /\ data \in {Some(payload) : payload \in Payloads}
    /\ processed_tweets = <<>>
    /\ outcome = NoOutcome
    /\ calls = 1
    /\ attempts = <<200>>
    /\ sent = <<ClampMaxResults(max_results)>>
    /\ callPosts = 0
    /\ tokenAnswer = None
    /\ postWithToken = FALSE
    /\ lastWait = None
    /\ gateWait = 0
    /\ sleeps = 0
    /\ getTime = Some(now)
    /\ statusGets = 0
    /\ received = None
    /\ last_response_time = Some(now)
    /\ last_status_time = None
    /\ gap = None

\* search_tweets: no tweets in the body, the empty result is returned
NoTweets ==
    /\ pc = "parsed"
    /\ EmptyData(data[1])
    /\ Finish([Returned("result", NoToken)
                  EXCEPT !.status = attempts[Len(attempts)],
                         !.value = EmptyResult(query)])
    /\ UNCHANGED <<now, prog, op, args, locals, calls, hist>>

\* search_tweets: processed_tweets = self._process_response(data)
Process ==
    /\ pc = "parsed"
    /\ ~EmptyData(data[1])
    /\ processed_tweets' = ProcessResponse(data[1])
    /\ pc' = "processed"
    /\ UNCHANGED <<now, prog, op, args, retry_count, wait_seconds, headers,
                   params, data, outcome, calls, hist>>

\* search_tweets: the tweets are sorted and the result is returned
SortAndReturn ==
    /\ pc = "processed"
    /\ processed_tweets' = SortByViews(processed_tweets)
    /\ Finish([Returned("result", NoToken)
                  EXCEPT !.status = attempts[Len(attempts)],
                         !.value = FoundResult(query, processed_tweets')])
    /\ UNCHANGED <<now, prog, op, args, retry_count, wait_seconds, headers,
                   params, data, calls, hist>>

ResultNext == NoTweets \/ Process \/ SortAndReturn

SpecResult == ResultInit /\ [][ResultNext]_vars

TypeOK ==
    /\ now \in Nat
    /\ pc \in {"new", "dead", "idle", "post", "gate", "get", "sleep",
               "status_get", "done"}
    /\ bearer_token \in Tokens \cup {NoToken}
    /\ retry_count \in 0..(MaxRetries + 1)
    /\ <<query, max_results, max_retries>> \in SearchArgs \cup {<<"", 0, 0>>}
    /\ params # None => params[1].max_results \in 10..100
    /\ Len(sent) = Len(attempts)
    /\ sleeps \in 0..MaxRetries
    /\ statusGets \in 0..1
    /\ received \in {None} \cup {Some(h) : h \in HeaderSets}
    /\ getTime \in {None} \cup {Some(t) : t \in 0..now}


\* ------------------------------------------------------------ properties

All429(seq) == \A i \in 1..Len(seq) : seq[i] = 429
LastAttempt == attempts[Len(attempts)]
InSearch == op = "search"
SearchEnded == op = "search" /\ pc = "done"
RateLimitFailure == outcome.kind = "HTTPError" /\ outcome.why = "rate_limit"

\* C1 (as claimed): once 429 was answered to max_retries consecutive GET
\* attempts of a search_tweets call, the call has failed with the rate-limit
\* error, so a call that only sees 429 makes exactly max_retries GET attempts.
C1_FailsAfterMaxRetriesAttempts ==
    (InSearch /\ attempts # <<>> /\ All429(attempts)
        /\ Len(attempts) >= max_retries)
    => (SearchEnded /\ RateLimitFailure /\ Len(attempts) = max_retries)

\* C1 (amended): a search_tweets call that only sees 429 never makes more
\* than max_retries + 1 GET attempts; once 429 was answered to
\* max_retries + 1 consecutive attempts the call has failed with the
\* rate-limit error (and sends no further request), and it does not fail for
\* rate limiting before that.
C1_FailsAfterMaxRetriesPlusOneAttempts ==
    InSearch =>
        /\ Len(attempts) <= max_retries + 1
        /\ (All429(attempts) /\ Len(attempts) = max_retries + 1)
              => (SearchEnded /\ RateLimitFailure)
        /\ RateLimitFailure
              => (All429(attempts) /\ Len(attempts) = max_retries + 1)

C1_Witness ==
    /\ SearchEnded /\ RateLimitFailure
    /\ max_retries = 2
    /\ attempts = <<429, 429, 429>>

\* C2: every GET attempt of a search_tweets call that follows a 429 is sent
\* at least min_request_interval after the previous attempt's response was
\* recorded, whatever rate_limit_wait is.
C2_GateBeforeEveryAttempt ==
    (InSearch /\ Len(attempts) >= 2 /\ gap # None)
    => gap[1] >= min_request_interval

\* C3: in search_tweets only a 429 answer is followed by another GET: every
\* attempt but the last was answered 429; after a 4xx/5xx status other than
\* 429 the call has ended with an HTTPError carrying that response, and after
\* a network-level failure it has ended with the transport error.
C3_OnlyRateLimitRetried ==
    (InSearch /\ attempts # <<>>) =>
        /\ \A i \in 1..(Len(attempts) - 1) : attempts[i] = 429
        /\ (LastAttempt >= 400 /\ LastAttempt < 600 /\ LastAttempt # 429)
              => /\ SearchEnded
                 /\ outcome.kind = "HTTPError"
                 /\ outcome.response
                 /\ outcome.status = LastAttempt
        /\ LastAttempt = 0
              => /\ SearchEnded
                 /\ outcome.kind = "ConnectionError"
                 /\ ~outcome.response

C3_Witness ==
    /\ SearchEnded
    /\ attempts = <<429, 500>>
    /\ outcome.kind = "HTTPError"
    /\ outcome.status = 500

C5_ResetHeaderWait ==
    (pc = "sleep" /\ lastWait[1].reset # None)
    => LET untilReset ==
               lastWait[1].reset[1] * TicksPerSecond - lastWait[1].at
           fallback == rate_limit_wait * TicksPerSecond
       IN  /\ wait_seconds >= fallback
           /\ wait_seconds >= untilReset
           /\ wait_seconds \in {fallback, untilReset}

C5_Witness ==
    /\ pc = "sleep"
    /\ lastWait[1].reset # None
    /\ lastWait[1].reset[1] * TicksPerSecond < lastWait[1].at
    /\ Len(attempts) = 2
    /\ rate_limit_wait = 1
    /\ wait_seconds = TicksPerSecond

\* C6: the first GET of a search_tweets call is sent at least
\* min_request_interval after the last answer to a GET of an earlier
\* search_tweets call, and the first call on a fresh instance does not wait
\* at the gate.
C6_GateBetweenCalls ==
    /\ (InSearch /\ Len(attempts) = 1 /\ gap # None)
          => gap[1] >= min_request_interval
    /\ (InSearch /\ calls = 1) => gateWait = 0

C6_Witness ==
    /\ InSearch
    /\ calls = 2
    /\ Len(attempts) = 1
    /\ gap = Some(min_request_interval)
    /\ gateWait = 1

\* C7 (as claimed): once a token is stored, no token exchange POST is sent by
\* any later call, get_bearer_token() included.
C7_NoPostOnceTokenStored == ~postWithToken

\* C7 (amended): the token is cached for search_tweets and
\* get_rate_limit_status: once a token is stored these calls send no token
\* exchange POST and leave the token alone, and the GET of search_tweets
\* carries the stored token; only a direct get_bearer_token() call sends a
\* POST while a token is stored.
C7_TokenCachedForCallers ==
    [][/\ (callPosts' > callPosts)
            => (op = "token" \/ TokenMissing(bearer_token))
       /\ (bearer_token' # bearer_token) => callPosts' > callPosts
       /\ (pc' = "get") => headers' = bearer_token']_vars

C7_Witness ==
    /\ SearchEnded
    /\ outcome.kind = "result"
    /\ calls = 2
    /\ callPosts = 0
    /\ headers = bearer_token
    /\ headers \in Tokens

\* C8: when the token exchange of a search_tweets call is not answered with a
\* 2xx status, the call has ended with the error raised, exactly one POST was
\* sent, no token is stored and no search GET was sent; without credentials
\* no instance exists and no request is ever sent.
C8_AuthFailureSurfaces ==
    /\ (InSearch /\ tokenAnswer # None
          /\ ~(tokenAnswer[1] >= 200 /\ tokenAnswer[1] < 300))
          => /\ SearchEnded
             /\ outcome.kind \in {"HTTPError", "ConnectionError",
                                  "JSONDecodeError"}
             /\ callPosts = 1
             /\ TokenMissing(bearer_token)
             /\ attempts = <<>>
    /\ ~creds => (pc \in {"new", "dead"} /\ callPosts = 0 /\ attempts = <<>>)

\* C9: search_tweets called with an empty query sends no HTTP request (no
\* token exchange POST, no search GET) and ends with a validation error.
C9_EmptyQueryRejected ==
    (InSearch /\ query = "")
    => /\ callPosts = 0
       /\ attempts = <<>>
       /\ pc = "done" => outcome.kind = "ValidationError"

\* C10: a search_tweets call whose last GET was answered with a status that
\* is neither 2xx nor 429 ends with an HTTPError and returns no result
\* dictionary.
C10_NonSuccessIsHttpError ==
    (SearchEnded /\ attempts # <<>> /\ LastAttempt # 0 /\ LastAttempt # 429
        /\ ~(LastAttempt >= 200 /\ LastAttempt < 300))
    => (outcome.kind = "HTTPError" /\ outcome.kind # "result")

\* the number of steps a search_tweets call can still take before it ends:
\* every 429 answer that is retried costs a GET and a sleep, the last GET
\* ends the call
CallRank ==
    CASE pc = "post"  -> 2 * max_retries + 3
      [] pc = "gate"  -> 2 * max_retries + 2
      [] pc = "get"   -> 2 * (max_retries - retry_count) + 1
      [] pc = "sleep" -> 2 * (max_retries - retry_count) + 2
      [] OTHER        -> 0

CallStep == <<pc, retry_count, attempts>>' # <<pc, retry_count, attempts>>

\* C16: a search_tweets call terminates when its HTTP calls and sleeps
\* return: every step of the call strictly lowers a natural-number rank that
\* starts at 2 * max_retries + 3.  The call sends at most max_retries + 1
\* GETs and sleeps at most max_retries times, one sleep between two GETs,
\* and it ends with the rate limit error exactly when max_retries + 1 GETs
\* were sent and every one of them was answered 429.
C16_TerminatesWithinRetryBudget ==
    /\ [][(InSearch /\ pc # "done" /\ CallStep)
             => (CallRank' < CallRank /\ CallRank' >= 0)]_vars
    /\ [](InSearch =>
            /\ Len(attempts) <= max_retries + 1
            /\ sleeps <= max_retries
            /\ sleeps <= Len(attempts)
            /\ (pc = "done" /\ outcome.kind # "none") =>
                  /\ sleeps = Max(Len(attempts) - 1, 0)
                  /\ RateLimitFailure <=>
                        (Len(attempts) = max_retries + 1 /\ All429(attempts)))

C16_Witness ==
    /\ SearchEnded
    /\ RateLimitFailure
    /\ max_retries = 3
    /\ sleeps = 3
    /\ Len(attempts) = 4

Contains(seq, word) == \E i \in 1..Len(seq) : seq[i] = word

\* C17: when search_tweets gives up because every attempt was answered 429,
\* the error that reaches the caller has a message containing "429" and
\* carries the 429 response.
C17_GiveUpErrorNames429 ==
    (SearchEnded /\ RateLimitFailure)
        => (Contains(outcome.msg, "429") /\ outcome.response)

\* C18: a search_tweets call that finds a token stored keeps it: the call
\* leaves bearer_token alone, sends no token exchange POST, and every GET of
\* the call, retries included, carries that token; a GET answered 401 ends
\* the call with the HTTP error of that response.
C18_SearchKeepsStoredToken ==
    /\ [][(InSearch /\ ~TokenMissing(bearer_token)) =>
             /\ bearer_token' = bearer_token
             /\ callPosts' <= callPosts
             /\ pc' # "post"
             /\ (pc' \in {"get", "sleep"}) => headers' = bearer_token]_vars
    /\ []((SearchEnded /\ attempts # <<>> /\ LastAttempt = 401) =>
            /\ outcome.kind = "HTTPError"
            /\ outcome.status = 401
            /\ outcome.response
            /\ headers = bearer_token)

C18_Witness ==
    /\ SearchEnded
    /\ calls = 2
    /\ callPosts = 0
    /\ attempts = <<429, 401>>
    /\ headers = bearer_token
    /\ headers \in Tokens
    /\ outcome.kind = "HTTPError"
    /\ outcome.status = 401

\* C19: every GET of search_tweets that was sent, whatever its outcome, sets
\* the last-request timestamp to a time not before the GET was sent.
C19_EveryAttemptStamped ==
    (InSearch /\ getTime # None)
        => (last_request_time # None /\ last_request_time[1] >= getTime[1])

StatusEnded == op = "status" /\ pc = "done"

\* the entry of the returned dictionary for a header: its value when the
\* response has it, "Unknown" when it has not
ReportsHeader(entry, hdrs, name) ==
    IF name \in DOMAIN hdrs THEN entry = hdrs[name] ELSE entry = "Unknown"

\* C15 (as claimed): get_rate_limit_status sends no request of its own, and
\* reports "Unknown" for limit, remaining and reset when the header is
\* absent.
C15_StatusSendsNoRequest ==
    (op = "status") =>
        /\ statusGets = 0
        /\ (pc = "done" /\ outcome.kind = "status") =>
              /\ outcome.value.limit \in {"Unknown", "450"}
              /\ outcome.value.remaining \in {"Unknown", "449"}
              /\ outcome.value.reset \in {"Unknown"} \cup ResetValues

\* C15 (amended): get_rate_limit_status sends exactly one search GET of its
\* own and reports the rate limit headers of the answer to that GET: the
\* header's value when it is there and "Unknown" for limit, remaining and
\* reset when it is absent, reset_time being None when the reset header is
\* absent; when the GET fails or the reset value is not a number the result
\* is the empty dictionary.  Only a call that fails in its token exchange
\* ends without the GET.
C15_StatusReportsFreshHeaders ==
    (op = "status") =>
        /\ statusGets =
             IF outcome.kind \in {"status", "status_empty"} THEN 1 ELSE 0
        /\ (pc = "done" /\ statusGets = 0) => tokenAnswer # None
        /\ (pc = "done" /\ outcome.kind = "status") =>
              /\ received # None
              /\ LET hdrs == received[1]
                     value == outcome.value
                 IN  /\ ReportsHeader(value.limit, hdrs, "x-rate-limit-limit")
                     /\ ReportsHeader(value.remaining, hdrs,
                                      "x-rate-limit-remaining")
                     /\ ReportsHeader(value.reset, hdrs, "x-rate-limit-reset")
                     /\ ("x-rate-limit-reset" \notin DOMAIN hdrs)
                           => value.reset_time = None
        /\ (pc = "done" /\ outcome.kind = "status_empty") =>
              (received = None \/ ~ResetTimeParses(received[1]))

C15_Witness ==
    /\ StatusEnded
    /\ statusGets = 1
    /\ received = Some(<<>>)
    /\ outcome.kind = "status"
    /\ outcome.value.limit = "Unknown"
    /\ outcome.value.remaining = "Unknown"
    /\ outcome.value.reset = "Unknown"

\* C14: every GET of a search_tweets call, the first and every retry,
\* carries as max_results the caller's value clamped to the range 10..100:
\* 10 when the value is below 10, 100 when it is above 100, the value itself
\* otherwise.
C14_MaxResultsClamped ==
    InSearch =>
        \A i \in 1..Len(sent) :
            sent[i] = IF max_results < 10 THEN 10
                      ELSE IF max_results > 100 THEN 100
                      ELSE max_results

C14_Witness ==
    /\ SearchEnded
    /\ max_results = 5
    /\ sent = <<10, 10, 10>>
    /\ attempts = <<429, 429, 200>>

\* the raw tweets of the parsed body, none when the body has no data array
RawTweets ==
    IF data # None /\ "data" \in DOMAIN data[1] THEN data[1]["data"] ELSE <<>>

\* the ids of the users the parsed body includes
IncludedIds ==
    IF data # None /\ "includes" \in DOMAIN data[1]
         /\ "users" \in DOMAIN data[1]["includes"]
      THEN {data[1]["includes"]["users"][i]["id"] :
              i \in 1..Len(data[1]["includes"]["users"])}
      ELSE {}

ResultReturned == SearchEnded /\ outcome.kind = "result"

\* the place of the tweet with this id in the data array of the body
InputPlace(id) == CHOOSE k \in 1..Len(RawTweets) : RawTweets[k]["id"] = id

\* C11: the tweets of every result are ordered by views, highest first, and
\* two tweets with equal views are in the order the data array had them.
C11_SortedByViewsStable ==
    ResultReturned =>
        LET tweets == outcome.value.tweets
        IN  /\ \A i \in 1..(Len(tweets) - 1) :
                  tweets[i].views >= tweets[i + 1].views
            /\ \A i, j \in 1..Len(tweets) :
                  (i < j /\ tweets[i].views = tweets[j].views)
                      => InputPlace(tweets[i].id) < InputPlace(tweets[j].id)

C11_Witness ==
    /\ ResultReturned
    /\ Len(outcome.value.tweets) = 3
    /\ [i \in 1..3 |-> outcome.value.tweets[i].id] = <<"3", "1", "2">>
    /\ [i \in 1..3 |-> outcome.value.tweets[i].views] = <<1, 0, 0>>

\* C12: in every result totalResults is the length of tweets, tweets has
\* exactly one record for each raw tweet of the data array of the body (none
\* when there is no data array), and query is the query of the call.
C12_ResultConsistent ==
    ResultReturned =>
        LET value == outcome.value
        IN  /\ value.totalResults = Len(value.tweets)
            /\ Len(value.tweets) = Len(RawTweets)
            /\ \A k \in 1..Len(RawTweets) :
                  Cardinality({i \in 1..Len(value.tweets) :
                                 value.tweets[i].id = RawTweets[k]["id"]}) = 1
            /\ value.query = query

C12_Witness ==
    /\ ResultReturned
    /\ query = "AI"
    /\ Len(RawTweets) = 3
    /\ outcome.value.totalResults = 3
    /\ outcome.value.tweets[3].views = 0

\* C13: a search_tweets call whose GET is answered successfully with a body
\* that has no data array, or an empty one, has ended with that answer: it
\* returns no tweets, totalResults 0 and the query of the call, raises
\* nothing, and the answer is the last GET of the call.
C13_EmptyDataIsEmptyResult ==
    (InSearch /\ data # None /\ Len(RawTweets) = 0) =>
        /\ pc = "done"
        /\ outcome.kind = "result"
        /\ outcome.value.tweets = <<>>
        /\ outcome.value.totalResults = 0
        /\ outcome.value.query = query
        /\ LastAttempt = outcome.status
        /\ Len(sent) = Len(attempts)
        /\ sleeps = Len(attempts) - 1

C13_Witness ==
    /\ SearchEnded
    /\ data = Some("data" :> <<>>)
    /\ query = "AI"
    /\ attempts = <<429, 200>>
    /\ outcome.kind = "result"
    /\ outcome.value.totalResults = 0

\* the metric of a raw tweet, 0 when the tweet has no public_metrics or the
\* public_metrics has no such metric
RawMetric(tweet, metric) ==
    IF "public_metrics" \notin DOMAIN tweet THEN 0
    ELSE IF metric \notin DOMAIN tweet["public_metrics"] THEN 0
    ELSE tweet["public_metrics"][metric]

AuthorIncluded(tweet) ==
    IF "author_id" \in DOMAIN tweet THEN tweet["author_id"] \in IncludedIds
    ELSE FALSE

\* C20: _process_response gives one record per tweet of the data array, in
\* its order; a tweet whose author is not among the included users gets the
\* author "Unknown" and the handle "@unknown", and views, likes, retweets and
\* replies are the tweet's metrics, 0 for a metric that is absent or when
\* public_metrics is absent.
C20_ProcessResponseDefaults ==
    (InSearch /\ pc = "processed") =>
        /\ Len(processed_tweets) = Len(RawTweets)
        /\ \A k \in 1..Len(RawTweets) :
              LET raw == RawTweets[k]
                  tweet == processed_tweets[k]
              IN  /\ tweet.id = raw["id"]
                  /\ ~AuthorIncluded(raw) =>
                        (tweet.author = "Unknown"
                            /\ tweet.username = "@unknown")
                  /\ tweet.views = RawMetric(raw, "impression_count")
                  /\ tweet.likes = RawMetric(raw, "like_count")
                  /\ tweet.retweets = RawMetric(raw, "retweet_count")
                  /\ tweet.replies = RawMetric(raw, "reply_count")

C20_Witness ==
    /\ pc = "processed"
    /\ Len(processed_tweets) = 3
    /\ "author_id" \in DOMAIN RawTweets[1]
    /\ ~AuthorIncluded(RawTweets[1])
    /\ "public_metrics" \notin DOMAIN RawTweets[1]
    /\ processed_tweets[1].author = "Unknown"
    /\ processed_tweets[1].username = "@unknown"
    /\ processed_tweets[1].views = 0
    /\ processed_tweets[2].author = "Ann"
    /\ processed_tweets[2].likes = 3
    /\ "public_metrics" \in DOMAIN RawTweets[3]
    /\ processed_tweets[3].likes = 0

\* C21: every tweet record of every result returned by search_tweets has
\* views of 0 or more, whatever impression_count the body carries.
C21_ViewsNonNegative ==
    ResultReturned =>
        \A i \in 1..Len(outcome.value.tweets) :
            outcome.value.tweets[i].views >= 0

\* C22: requests are spaced over any interleaving of get_rate_limit_status
\* and search_tweets calls: the status GET is recorded in last_request_time,
\* and no GET of search_tweets is sent less than min_request_interval after
\* a status GET.
C22_StatusRequestSpaced ==
    /\ (op = "status" /\ statusGets = 1)
          => last_request_time = last_status_time
    /\ (InSearch /\ getTime # None /\ last_status_time # None)
          => getTime[1] - last_status_time[1] >= min_request_interval

====
